---- MODULE Spec2Model ----
(***************************************************************************)
(* The node-tree synchronisation core of the NodeSpace desktop shell       *)
(* (the App component).  The repository carries two builds of App:         *)
(*   "virtual" : src/unnamed/part_003 (and src/src/App.tsx 1-423): an      *)
(*               empty date shows a virtual placeholder that is promoted   *)
(*               by a debounced create call;                               *)
(*   "faf"     : src/src/App.tsx 424-749: the fire-and-forget build in     *)
(*               which every node is real and ids come from the client.    *)
(* React state is modelled by the variables below; a closure created by a  *)
(* render keeps the `nodes` array of that render (field cap), and node     *)
(* objects are shared by reference between arrays (the heap obj).          *)
(* The tree builder (convertToBaseNodes) is also run on its own on every   *)
(* reply of a bounded size (SpecBuilder).  The AI chat handler is not part *)
(* of the files under src/; its write-back follows section 4.5 of the      *)
(* specification (SpecAI, FairSpecAI).                                     *)
(***************************************************************************)
EXTENDS Integers, Sequences, FiniteSets, Bags, TLC

\* ------------------------------------------------------------------ bounds
\* user actions (content edits, date changes, node creations) in one session
MaxSteps == 2

\* nodes in one reply handed to the tree builder
MaxNodes == 3

\* ------------------------------------------------------------- value sets
NullId == <<"null", 0>>
BackendId(n) == <<"b", n>>
ClientId(n) == <<"c", n>>
ServerId(n) == <<"s", n>>

Builds == {"virtual", "faf"}
Days == {1, 2}
NoDate == "undefined"

\* date.toISOString().split('T')[0]
DateStr(day) == IF day = 1 THEN "2024-06-22" ELSE "2024-06-23"

DateStrs == {DateStr(d) : d \in Days}

\* contents the user can type: a string is a sequence of characters
Contents == {<<" ">>, <<"x", " ">>}

RECURSIVE TrimStart(_)
TrimStart(s) == IF s # <<>> /\ Head(s) = " " THEN TrimStart(Tail(s)) ELSE s

RECURSIVE TrimEnd(_)
TrimEnd(s) == IF s # <<>> /\ s[Len(s)] = " " THEN TrimEnd(SubSeq(s, 1, Len(s) - 1)) ELSE s

\* String.prototype.trim
Trim(s) == TrimEnd(TrimStart(s))

MinOf(S) == CHOOSE x \in S : \A y \in S : x <= y

\* ------------------------------------------------------------------ state
VARIABLES
  build,        \* which build of App runs
  selectedDate, \* useState<Date>
  nodes,        \* useState<BaseNode[]>: the current array, a sequence of object references
  loading,      \* useState<boolean>
  obj,          \* the heap of node objects, indexed by reference
  timers,       \* pending setTimeout callbacks of the debounced functions, in arming order
  calls,        \* invoke() calls in flight
  log,          \* every invoke() issued so far
  backend,      \* what the backend has persisted, per date
  nextClient,   \* ids generated on the client so far
  nextServer,   \* ids generated by the backend so far
  edits,        \* number of content edits so far
  navs,         \* number of date changes so far
  creates,      \* number of node creations so far
  burst,        \* the run of edits to one node that is being followed
  focusedNodeId, \* useState<string | null>
  console,      \* the messages console.error / console.warn have written
  structLog,    \* the update_node_structure calls, in the order of their dispatch
  structs,      \* number of structural changes the editor has reported so far
  scope,        \* per node object, the date it was loaded or created for
  focuses,      \* number of times the user has put the focus on a node so far
  collapsedNodes, \* useState<Set<string>>: the ids of the collapsed nodes
  collapses,    \* number of collapse and expand events so far
  payload,      \* the reply of get_nodes_for_date handed to the tree builder
  built,        \* what the tree builder returned for it
  queries,      \* the AI queries issued and not yet answered
  metadata,     \* per node id, the metadata the AI queries have written back
  writes,       \* the metadata write-backs so far, in the order they landed
  asked,        \* number of AI queries issued so far
  failed,       \* has an invoke() been rejected so far?
  lastSent,     \* per node id, the content of the last create or update call issued for it
  dateObjs,     \* the heap of Date objects of the date navigation bar
  barSelectedDate, \* the selectedDate prop of the bar, a reference to a Date object
  dateCalls,    \* the onDateChange calls of the bar, in order
  clicks,       \* number of clicks on the buttons of the bar so far
  themeMode,    \* useTheme: useState<ThemeMode>
  currentTheme, \* useTheme: useState<'light' | 'dark'>
  stored,       \* localStorage: the item under THEME_STORAGE_KEY
  osDark,       \* window.matchMedia('(prefers-color-scheme: dark)').matches
  listening,    \* is handleChange registered on the media query?
  effectsPending, \* have the effects of the last change of themeMode still to run?
  themeLog      \* the theme events (user, system, restart) so far, in order

collapseVars == <<collapsedNodes, collapses>>

builderVars == <<payload, built>>

aiVars == <<queries, metadata, writes, asked>>

barVars == <<dateObjs, barSelectedDate, dateCalls, clicks>>

themeVars == <<themeMode, currentTheme, stored, osDark, listening, effectsPending, themeLog>>

shellVars == <<barVars, themeVars>>

vars == <<build, selectedDate, nodes, loading, obj, timers, calls, log, backend,
          nextClient, nextServer, edits, navs, creates, burst, focusedNodeId,
          console, structLog, structs, scope, focuses, collapseVars, builderVars,
          aiVars, lastSent, failed, shellVars>>

Used == edits + navs + creates + structs + focuses + collapses + asked + clicks + Len(themeLog)

\* ---------------------------------------------------------------- helpers
Call(cmd, id, content, date, cap, ref) ==
  [cmd |-> cmd, id |-> id, content |-> content, date |-> date, cap |-> cap, ref |-> ref]

Entry(c) == [cmd |-> c.cmd, id |-> c.id, content |-> c.content, date |-> c.date, ref |-> c.ref]

NoBurst == [node |-> NullId, virt |-> FALSE, k |-> 0, last |-> <<>>, sent |-> <<>>]

\* new TextNode(content): the constructor gives the node an id of its own
TextNode(id, content) ==
  [id |-> id, content |-> content, isVirtual |-> FALSE, dateContext |-> NoDate,
   parent |-> NullId, children |-> <<>>, depth |-> 0, siblingIndex |-> 0,
   parentId |-> NullId]

\* nodes.find(n => n.getNodeId() === nodeId) on array arr; 0 when undefined
Find(arr, id) ==
  LET hits == {i \in DOMAIN arr : obj[arr[i]].id = id}
  IN IF hits = {} THEN 0 ELSE arr[MinOf(hits)]

\* the node objects of the trees rooted in arr, in pre-order
RECURSIVE Flatten(_)
Flatten(arr) ==
  IF arr = <<>> THEN <<>>
  ELSE <<Head(arr)>> \o Flatten(obj[Head(arr)].children) \o Flatten(Tail(arr))

\* the node objects in the tree on display
InTree == {Flatten(nodes)[i] : i \in DOMAIN Flatten(nodes)}

\* countAllNodes(nodes): the roots and all their descendants
totalNodeCount == Len(Flatten(nodes))

IdsInTree == {obj[nodes[i]].id : i \in DOMAIN nodes}

TimersFor(id) == {i \in DOMAIN timers : timers[i].nodeId = id}

HasTimer(id) == TimersFor(id) # {}

\* A setNodes with a new array re-renders App.  In the virtual build the
\* debounced functions are re-created (useCallback deps [nodes] and
\* [handleVirtualNodeContent]), so timers armed before belong to functions no
\* handler calls any more; in the faf build debouncedSaveContent has deps [].
Rerender(ts) ==
  IF build = "virtual" THEN [i \in DOMAIN ts |-> [ts[i] EXCEPT !.live = FALSE]] ELSE ts

\* a debounce that forgets clearTimeout(timeout) before arming the new timer
debounceNoClear(ts, kind, id, content, cap) ==
  Append(ts, [kind |-> kind, nodeId |-> id, content |-> content, cap |-> cap, live |-> TRUE])

\* debounce(func, wait): executedFunction(...args) clears the timer this
\* debounced function has pending and arms a new one
debounce(ts, kind, id, content, cap) ==
  Append(SelectSeq(ts, LAMBDA t : ~(t.live /\ t.kind = kind)),
         [kind |-> kind, nodeId |-> id, content |-> content, cap |-> cap, live |-> TRUE])

\* ---------------------------------------------------------------- backend
\* get_nodes_for_date: the roots persisted for the date, as a hierarchy
Payload(d) ==
  [shape |-> "nested",
   children |-> [i \in DOMAIN backend[d] |->
     [node |-> backend[d][i], children |-> <<>>, depth |-> 0,
      sibling_index |-> i - 1, parent_id |-> NullId]]]

\* ----------------------------------------------------- tree builder inputs
\* The hierarchy the backend makes of the nodes listed in pre-order with
\* their depths: the entries of `listing` at `level` under `parent`, each with
\* the entries below it as its children; idx is the place among the siblings.
RECURSIVE Hierarchy(_, _, _, _)
Hierarchy(listing, level, parent, idx) ==
  IF listing = <<>> THEN <<>>
  ELSE LET later == {j \in 2..Len(listing) : listing[j].depth <= level}
           next == IF later = {} THEN Len(listing) + 1 ELSE MinOf(later)
       IN <<[node |-> [id |-> listing[1].id, content |-> <<"x">>],
             children |-> Hierarchy(SubSeq(listing, 2, next - 1), level + 1,
                                    listing[1].id, 0),
             depth |-> level, sibling_index |-> idx, parent_id |-> parent]>>
          \o Hierarchy(SubSeq(listing, next, Len(listing)), level, parent, idx + 1)

\* the pre-order listings of the forests of n nodes: any order of the ids,
\* the first node a root and each node at most one level below the one before
Listings(n) ==
  {[i \in 1..n |-> [id |-> BackendId(f[i]), depth |-> d[i]]] :
     f \in {g \in [1..n -> 1..n] : \A i, j \in 1..n : g[i] = g[j] => i = j},
     d \in {e \in [1..n -> 0..(n - 1)] :
              /\ n > 0 => e[1] = 0
              /\ \A i \in 1..(n - 1) : e[i + 1] <= e[i] + 1}}

\* replies of variant A: { children: [{node, children, depth, sibling_index,
\* parent_id}] }
NestedPayloads ==
  {[shape |-> "nested", children |-> Hierarchy(l, 0, NullId, 0)] :
     l \in UNION {Listings(n) : n \in 0..MaxNodes}}

\* the node before id in the chain the next pointers describe, null if none
PreviousOf(ids, next, id) ==
  LET before == {j \in DOMAIN ids : next[j] \in DOMAIN ids /\ ids[next[j]] = id}
  IN IF before = {} THEN NullId ELSE ids[MinOf(before)]

\* replies of variant B: an array of {id, content, previousSibling,
\* nextSibling} in any order, the pointers well formed or not
FlatPayloads ==
  {[shape |-> "flat",
    entries |-> [i \in 1..n |->
       [id |-> BackendId(f[i]), content |-> <<"x">>,
        nextSibling |-> IF nx[i] = 0 THEN NullId ELSE BackendId(f[nx[i]]),
        previousSibling |->
          IF heads THEN NullId
          ELSE PreviousOf([j \in 1..n |-> BackendId(f[j])], nx, BackendId(f[i]))]]] :
     n \in 1..MaxNodes,
     f \in {g \in [1..MaxNodes -> 1..MaxNodes] :
              \A i, j \in 1..MaxNodes : g[i] = g[j] => i = j},
     nx \in [1..MaxNodes -> 0..MaxNodes], heads \in BOOLEAN}

\* a reply that is null, and an object that has no children field
BarePayloads == {[shape |-> "null"], [shape |-> "bare"]}

Payloads == NestedPayloads \cup FlatPayloads \cup BarePayloads

Persisted(id) == \E d \in DateStrs : \E i \in DOMAIN backend[d] : backend[d][i].id = id

Store(d, id, content) ==
  IF Persisted(id) THEN backend
  ELSE [backend EXCEPT ![d] = Append(@, [id |-> id, content |-> content])]

StoreContent(id, content) ==
  [d \in DateStrs |-> [i \in DOMAIN backend[d] |->
     IF backend[d][i].id = id THEN [backend[d][i] EXCEPT !.content = content]
     ELSE backend[d][i]]]

\* ------------------------------------------------------------ tree builder
\* a builder that takes the siblings of an entry before its children
RECURSIVE processNodesSiblingsFirst(_)
processNodesSiblingsFirst(hs) ==
  IF hs = <<>> THEN <<>>
  ELSE LET h == Head(hs)
           node == [TextNode(h.node.id, h.node.content) EXCEPT
                      !.depth = h.depth, !.siblingIndex = h.sibling_index,
                      !.parentId = h.parent_id]
       IN <<node>> \o processNodesSiblingsFirst(Tail(hs))
                  \o processNodesSiblingsFirst(h.children)

\* processNode(hierarchicalNode) for every entry of the array: the node is
\* pushed, then its children are processed, then the entries after it
RECURSIVE processNodes(_)
processNodes(hs) ==
  IF hs = <<>> THEN <<>>
  ELSE LET h == Head(hs)
           node == [TextNode(h.node.id, h.node.content) EXCEPT
                      !.depth = h.depth, !.siblingIndex = h.sibling_index,
                      !.parentId = h.parent_id]
       IN <<node>> \o processNodes(h.children) \o processNodes(Tail(hs))

\* if (!hierarchicalData?.children) return []: only a reply that is an
\* object with a children field is walked
convertToBaseNodes(hierarchicalData) ==
  IF hierarchicalData.shape # "nested" THEN <<>>
  ELSE processNodes(hierarchicalData.children)

\* references given to k objects appended to the heap
NewRefs(k) == [i \in 1..k |-> Len(obj) + i]

\* the dates of the node objects after a step that made new objects for date
ScopeAfter(date) == [r \in DOMAIN obj' |-> IF r \in DOMAIN scope THEN scope[r] ELSE date]

\* String.prototype.includes, on a message as a sequence of words
includes(msg, pat) ==
  \E i \in 1..(Len(msg) - Len(pat) + 1) : SubSeq(msg, i, i + Len(pat) - 1) = pat

\* the errors a rejected invoke() can carry, as error.toString() gives them
NotFoundError == <<"Record", "not", "found">>
ValidationError == <<"invalid", "args">>
TransportError == <<"connection", "refused">>
UnknownError == <<"unknown">>
Errors == {NotFoundError, ValidationError, TransportError, UnknownError}

\* what an invoke() settles with: resolved, or rejected with an error
Outcomes == {[ok |-> TRUE, error |-> <<>>]} \cup {[ok |-> FALSE, error |-> e] : e \in Errors}

\* ------------------------------------------------------------------- Init
GetCall(day) == Call("get_nodes_for_date", NullId, <<>>, DateStr(day), <<>>, 0)

\* the commands that carry the content of a node
ContentCommands == {"create_node_for_date", "create_node_for_date_with_id", "update_node_content"}

SentAfter(c) ==
  IF c.cmd \in ContentCommands /\ c.id # NullId
  THEN [id \in DOMAIN lastSent \cup {c.id} |-> IF id = c.id THEN c.content ELSE lastSent[id]]
  ELSE lastSent

Issue(c) ==
  /\ calls' = calls (+) SetToBag({c})
  /\ log' = log (+) SetToBag({Entry(c)})
  /\ lastSent' = SentAfter(c)

\* no reply has been handed to the tree builder
NoPayload == [shape |-> "none"]

NotBuilt == [done |-> FALSE, nodes |-> <<>>]

\* The state after mount: the first render and the effect that starts the load
\* of today's date (any of the days).
InitApp(b) ==
  /\ build = b
  /\ selectedDate \in Days
  /\ nodes = <<>>
  /\ loading = TRUE
  /\ obj = <<>>
  /\ timers = <<>>
  /\ calls = SetToBag({GetCall(selectedDate)})
  /\ log = SetToBag({Entry(GetCall(selectedDate))})
  /\ backend = [d \in DateStrs |->
                  IF d = DateStr(1)
                  THEN <<[id |-> BackendId(1), content |-> <<"x">>],
                         [id |-> BackendId(2), content |-> <<>>]>>
                  ELSE <<>>]
  /\ nextClient = 0
  /\ nextServer = 0
  /\ edits = 0
  /\ navs = 0
  /\ creates = 0
  /\ burst = NoBurst
  /\ focusedNodeId = NullId
  /\ console = {}
  /\ structLog = <<>>
  /\ structs = 0
  /\ scope = <<>>
  /\ focuses = 0
  /\ collapsedNodes = {}
  /\ collapses = 0
  /\ lastSent = <<>>
  /\ failed = FALSE

\* no AI query has been issued
InitQueries ==
  /\ queries = {}
  /\ metadata = <<>>
  /\ writes = <<>>
  /\ asked = 0

\* the date navigation bar is not mounted
InitBarIdle ==
  /\ dateObjs = <<>>
  /\ barSelectedDate = 0
  /\ dateCalls = <<>>
  /\ clicks = 0

\* localStorage.getItem gives null: nothing is stored under the key
NoItem == "null"

\* no component uses the theme hook
InitThemeIdle ==
  /\ themeMode = "auto"
  /\ currentTheme = "light"
  /\ stored = NoItem
  /\ osDark = FALSE
  /\ listening = FALSE
  /\ effectsPending = FALSE
  /\ themeLog = <<>>

\* App without the tree builder run on its own and without AI queries
InitPlain(b) ==
  /\ InitApp(b)
  /\ payload = NoPayload
  /\ built = NotBuilt
  /\ InitQueries

InitOf(b) ==
  /\ InitPlain(b)
  /\ InitBarIdle
  /\ InitThemeIdle

InitVirtual == InitOf("virtual")

InitFaf == InitOf("faf")

Init == \E b \in Builds : InitOf(b)

\* ---------------------------------------------------------- date handling
\* a date change that cancels what the debounced functions have pending
TimersAfterNavigateCleared == <<>>

\* the date change re-renders: handleVirtualNodeContent (deps [nodes,
\* selectedDate]) and with it debouncedCreateFromVirtual are re-created in the
\* virtual build; no timer is cleared
TimersAfterNavigate ==
  [i \in DOMAIN timers |->
     IF build = "virtual" /\ timers[i].kind = "create"
     THEN [timers[i] EXCEPT !.live = FALSE] ELSE timers[i]]

\* navigateDate / handleDateChange, then the effect that calls
\* loadNodesForDate up to its await
Navigate(day) ==
  /\ Used < MaxSteps
  /\ navs' = navs + 1
  /\ selectedDate' = day
  /\ loading' = TRUE
  /\ Issue(GetCall(day))
  /\ timers' = TimersAfterNavigate
  /\ burst' = NoBurst
  /\ UNCHANGED <<failed, shellVars, collapseVars, builderVars, aiVars, build, focuses, focusedNodeId, console, structLog, structs, scope, nodes, obj, backend, nextClient, nextServer, edits, creates>>

\* the virtual empty node of loadNodesForDate
VirtualEmptyNode(dateStr) ==
  [TextNode(ClientId(nextClient + 1), <<>>) EXCEPT !.isVirtual = TRUE, !.dateContext = dateStr]

\* a load that adds the placeholder to the tree on display
VirtualTreeAppended == nodes \o NewRefs(1)

\* setNodes([virtualEmptyNode]): the placeholder is the whole tree
VirtualTree == NewRefs(1)

\* a load that adds what it built to the tree on display
LoadedTreeMerged(frontendNodes) == nodes \o NewRefs(Len(frontendNodes))

\* setNodes(frontendNodes): what was built is the whole tree
LoadedTree(frontendNodes) == NewRefs(Len(frontendNodes))

\* loadNodesForDate after its await: the reply to get_nodes_for_date
LoadReply(c, ok) ==
  /\ BagIn(c, calls)
  /\ c.cmd = "get_nodes_for_date"
  /\ LET frontendNodes == convertToBaseNodes(Payload(c.date))
         rest == calls (-) SetToBag({c})
     IN
     IF ok /\ Len(frontendNodes) # 0
     THEN /\ obj' = obj \o frontendNodes
          /\ nodes' = LoadedTree(frontendNodes)
          /\ calls' = rest
          /\ UNCHANGED <<log, lastSent, nextClient>>
     ELSE IF build = "virtual"
     THEN /\ obj' = Append(obj, VirtualEmptyNode(c.date))
          /\ nodes' = VirtualTree
          /\ nextClient' = nextClient + 1
          /\ calls' = rest
          /\ UNCHANGED <<log, lastSent>>
     ELSE IF ok
     THEN LET nodeId == ClientId(nextClient + 1)
              cr == Call("create_node_for_date_with_id", nodeId, <<>>, c.date, <<>>, 0)
          IN /\ obj' = Append(obj, TextNode(nodeId, <<>>))
             /\ nodes' = NewRefs(1)
             /\ nextClient' = nextClient + 1
             /\ calls' = rest (+) SetToBag({cr})
             /\ log' = log (+) SetToBag({Entry(cr)})
             /\ lastSent' = SentAfter(cr)
     ELSE /\ nodes' = <<>>
          /\ calls' = rest
          /\ UNCHANGED <<obj, log, lastSent, nextClient>>
  /\ console' = IF ok THEN console
                ELSE console \cup {"Failed to load hierarchical data for date:"}
  /\ scope' = ScopeAfter(c.date)
  /\ loading' = FALSE
  /\ timers' = Rerender(timers)
  /\ burst' = NoBurst
  /\ failed' = (failed \/ ~ok)
  /\ UNCHANGED <<shellVars, collapseVars, builderVars, aiVars, build, focuses, focusedNodeId, structLog, structs, selectedDate, backend,
                 nextServer, edits, navs, creates>>

\* ---------------------------------------------------------- content edits
\* the run of edits being followed, after an edit of node id to content c
BurstEdit(id, c, virt) ==
  IF burst.node = id /\ HasTimer(id)
  THEN [burst EXCEPT !.k = @ + 1, !.last = c]
  ELSE IF ~HasTimer(id)
  THEN [node |-> id, virt |-> virt, k |-> 1, last |-> c, sent |-> <<>>]
  ELSE NoBurst

\* the run of edits being followed, after a persistence call for node id
BurstSent(id, c) ==
  IF burst.node = id THEN [burst EXCEPT !.sent = Append(@, c)] ELSE burst

\* callbacks.onNodeChange(nodeId, content); the editor has put the content
\* into the node object it edits
onNodeChange(nodeId, content) ==
  /\ Used < MaxSteps
  /\ nodeId \in IdsInTree
  /\ edits' = edits + 1
  /\ LET node == Find(nodes, nodeId)
     IN
     IF build = "virtual" /\ obj[node].isVirtual
     THEN \* n.content = content; setNodes(updatedNodes); debouncedCreateFromVirtual
          /\ obj' = [r \in DOMAIN obj |->
                      IF obj[r].id = nodeId /\ \E i \in DOMAIN nodes : nodes[i] = r
                      THEN [obj[r] EXCEPT !.content = content] ELSE obj[r]]
          /\ nodes' = nodes
          /\ timers' = Rerender(debounce(timers, "create", nodeId, content, nodes))
          /\ burst' = BurstEdit(nodeId, content, TRUE)
     ELSE \* debouncedSaveContent(nodeId, content)
          /\ obj' = [obj EXCEPT ![node].content = content]
          /\ nodes' = nodes
          /\ timers' = debounce(timers, "save", nodeId, content,
                                IF build = "virtual" THEN nodes ELSE <<>>)
          /\ burst' = BurstEdit(nodeId, content, FALSE)
  /\ UNCHANGED <<failed, shellVars, collapseVars, builderVars, aiVars, build, focuses, focusedNodeId, console, structLog, structs, scope, selectedDate, loading, calls, log, lastSent, backend, nextClient,
                 nextServer, navs, creates>>

\* the body of debouncedSaveContent: does the timer's callback save?
SaveAllowed(t) ==
  IF build = "virtual"
  THEN LET currentNode == Find(t.cap, t.nodeId)
       IN ~(currentNode = 0 \/ obj[currentNode].isVirtual)
  ELSE TRUE

UpdateCall(t) == Call("update_node_content", t.nodeId, t.content, NoDate, <<>>, 0)

\* setTimeout fires `later` of debouncedSaveContent
FireSave ==
  /\ timers # <<>>
  /\ Head(timers).kind = "save"
  /\ LET t == Head(timers)
     IN
     IF SaveAllowed(t)
     THEN /\ Issue(UpdateCall(t))
          /\ burst' = BurstSent(t.nodeId, t.content)
     ELSE UNCHANGED <<calls, log, lastSent, burst>>
  /\ timers' = Tail(timers)
  /\ UNCHANGED <<failed, shellVars, collapseVars, builderVars, aiVars, build, focuses, focusedNodeId, console, structLog, structs, scope, selectedDate, nodes, loading, obj, backend, nextClient,
                 nextServer, edits, navs, creates>>

\* a catch that arms the save again
SaveCatchRetries(c, error) ==
  Append(timers, [kind |-> "save", nodeId |-> c.id, content |-> c.content,
                  cap |-> nodes, live |-> FALSE])

\* the catch of debouncedSaveContent: the timers pending after it
SaveCatch(c, error) == timers

\* the reply to update_node_content: the await resumes or the catch runs
UpdateReply(c, outcome) ==
  /\ BagIn(c, calls)
  /\ c.cmd = "update_node_content"
  /\ calls' = calls (-) SetToBag({c})
  /\ backend' = IF outcome.ok /\ Persisted(c.id) THEN StoreContent(c.id, c.content) ELSE backend
  /\ IF outcome.ok
     THEN UNCHANGED <<console, timers>>
     ELSE /\ console' =
               IF ~includes(outcome.error, <<"Record", "not", "found">>)
                  /\ ~includes(outcome.error, <<"not", "found">>)
               THEN console \cup {"Failed to auto-save node content:"}
               ELSE console
          /\ timers' = SaveCatch(c, outcome.error)
  /\ failed' = (failed \/ ~outcome.ok)
  /\ UNCHANGED <<shellVars, collapseVars, builderVars, aiVars, build, focuses, focusedNodeId, structLog, structs, scope, selectedDate, nodes,
                 loading, obj, log, lastSent, nextClient, nextServer, edits, navs, creates, burst>>

\* ------------------------------------------------------- virtual promotion
\* a handler without the `currentContent.trim() === ''` return
VirtualNodeCallNoBlankCheck(nodeId, cap) ==
  LET virtualNode == Find(cap, nodeId)
  IN IF virtualNode = 0 \/ ~obj[virtualNode].isVirtual THEN "notVirtual" ELSE "create"

\* handleVirtualNodeContent up to its await; cap is the `nodes` of the render
\* that created the callback
VirtualNodeCall(nodeId, cap) ==
  LET virtualNode == Find(cap, nodeId)
  IN IF virtualNode = 0 \/ ~obj[virtualNode].isVirtual THEN "notVirtual"
     ELSE IF Trim(obj[virtualNode].content) = <<>> THEN "blank"
     ELSE "create"

PromoteCall(t) ==
  LET virtualNode == Find(t.cap, t.nodeId)
  IN Call("create_node_for_date", t.nodeId, Trim(obj[virtualNode].content),
          obj[virtualNode].dateContext, t.cap, virtualNode)

\* setTimeout fires `later` of debouncedCreateFromVirtual
FireCreate ==
  /\ timers # <<>>
  /\ Head(timers).kind = "create"
  /\ LET t == Head(timers)
     IN
     IF VirtualNodeCall(t.nodeId, t.cap) = "create"
     THEN /\ Issue(PromoteCall(t))
          /\ burst' = BurstSent(t.nodeId, PromoteCall(t).content)
     ELSE UNCHANGED <<calls, log, lastSent, burst>>
  /\ timers' = Tail(timers)
  /\ UNCHANGED <<failed, shellVars, collapseVars, builderVars, aiVars, build, focuses, focusedNodeId, console, structLog, structs, scope, selectedDate, nodes, loading, obj, backend, nextClient,
                 nextServer, edits, navs, creates>>

\* an else branch that takes over the id the backend made
IdMismatchSwapsId(c, newNodeId) ==
  [r \in DOMAIN obj |-> IF r = c.ref THEN [obj[r] EXCEPT !.id = newNodeId] ELSE obj[r]]

\* newNodeId !== nodeId: console.warn only, the node objects stay as they are
IdMismatch(c, newNodeId) == obj

\* a catch block that arms the debounce again
CatchRetries(c) ==
  Append(timers, [kind |-> "create", nodeId |-> c.id, content |-> c.content,
                  cap |-> c.cap, live |-> FALSE])

\* catch (error) { console.error(...) }: the pending timers stay as they are
Catch(c) == timers

\* handleVirtualNodeContent after its await: the reply to the create call.
\* outcome "same": the backend reused the id; "different": it made its own.
PromoteReply(c, outcome) ==
  /\ BagIn(c, calls)
  /\ c.cmd = "create_node_for_date"
  /\ c.id # NullId
  /\ calls' = calls (-) SetToBag({c})
  /\ LET newNodeId == IF outcome = "same" THEN c.id ELSE ServerId(nextServer + 1)
     IN
     IF outcome = "error"
     THEN /\ timers' = Catch(c)
          /\ console' = console \cup {"Failed to create real node from virtual node:"}
          /\ UNCHANGED <<obj, nodes, backend, nextServer, burst>>
     ELSE IF newNodeId = c.id
     THEN /\ obj' = [r \in DOMAIN obj |->
                      IF obj[r].id = c.id /\ \E j \in DOMAIN c.cap : c.cap[j] = r
                      THEN [obj[r] EXCEPT !.isVirtual = FALSE, !.dateContext = NoDate]
                      ELSE obj[r]]
          /\ nodes' = c.cap
          /\ timers' = Rerender(timers)
          /\ backend' = Store(c.date, newNodeId, c.content)
          /\ burst' = NoBurst
          /\ UNCHANGED <<nextServer, console>>
     ELSE /\ obj' = IdMismatch(c, newNodeId)
          /\ console' = console \cup {"Unexpected! Backend generated different ID"}
          /\ backend' = Store(c.date, newNodeId, c.content)
          /\ nextServer' = nextServer + 1
          /\ UNCHANGED <<nodes, timers, burst>>
  /\ failed' = (failed \/ outcome = "error")
  /\ UNCHANGED <<shellVars, collapseVars, builderVars, aiVars, build, focuses, focusedNodeId, structLog, structs, scope, selectedDate, loading,
                 log, lastSent, nextClient, edits, navs, creates>>

\* ---------------------------------------------------------- node creation
\* callbacks.onNodeCreate of the virtual build, up to its await
onNodeCreate(content) ==
  /\ build = "virtual"
  /\ Used < MaxSteps
  /\ nodes # <<>>
  /\ creates' = creates + 1
  /\ Issue(Call("create_node_for_date", NullId, content, DateStr(selectedDate), <<>>, 0))
  /\ burst' = NoBurst
  /\ UNCHANGED <<failed, shellVars, collapseVars, builderVars, aiVars, build, focuses, focusedNodeId, console, structLog, structs, scope, selectedDate, nodes, loading, obj, timers, backend, nextClient,
                 nextServer, edits, navs>>

\* onNodeCreate after its await: the id the backend made is returned to the
\* editor, which adds the new sibling and reports the tree (onNodesChange);
\* on an error the promise rejects and the editor adds nothing
NodeCreateReply(c, ok) ==
  /\ BagIn(c, calls)
  /\ c.cmd = "create_node_for_date"
  /\ c.id = NullId
  /\ calls' = calls (-) SetToBag({c})
  /\ IF ok
     THEN LET newNodeId == ServerId(nextServer + 1)
          IN /\ obj' = Append(obj, TextNode(newNodeId, c.content))
             /\ nodes' = Append(nodes, Len(obj) + 1)
             /\ timers' = Rerender(timers)
             /\ backend' = Store(c.date, newNodeId, c.content)
             /\ nextServer' = nextServer + 1
             /\ burst' = NoBurst
             /\ UNCHANGED console
     ELSE /\ console' = console \cup {"Failed to create new node:"}
          /\ UNCHANGED <<obj, nodes, timers, backend, nextServer, burst>>
  /\ scope' = ScopeAfter(c.date)
  /\ failed' = (failed \/ ~ok)
  /\ UNCHANGED <<shellVars, collapseVars, builderVars, aiVars, build, focuses, focusedNodeId, structLog, structs, selectedDate, loading, log, lastSent,
                 nextClient, edits, navs, creates>>

\* callbacks.onNodeCreateWithId of the faf build (onNodeCreate delegates to it
\* with crypto.randomUUID()); the editor adds the node under the id it passed
onNodeCreateWithId(content) ==
  /\ build = "faf"
  /\ Used < MaxSteps
  /\ nodes # <<>>
  /\ creates' = creates + 1
  /\ LET nodeId == ClientId(nextClient + 1)
     IN /\ Issue(Call("create_node_for_date_with_id", nodeId, content,
                      DateStr(selectedDate), <<>>, 0))
        /\ obj' = Append(obj, TextNode(nodeId, content))
        /\ nodes' = Append(nodes, Len(obj) + 1)
  /\ nextClient' = nextClient + 1
  /\ timers' = Rerender(timers)
  /\ burst' = NoBurst
  /\ scope' = ScopeAfter(DateStr(selectedDate))
  /\ UNCHANGED <<failed, shellVars, collapseVars, builderVars, aiVars, build, focuses, focusedNodeId, console, structLog, structs, selectedDate, loading,
                 backend, nextServer, edits, navs>>

\* the .catch of the fire-and-forget create_node_for_date_with_id
CreateWithIdReply(c, ok) ==
  /\ BagIn(c, calls)
  /\ c.cmd = "create_node_for_date_with_id"
  /\ calls' = calls (-) SetToBag({c})
  /\ backend' = IF ok THEN Store(c.date, c.id, c.content) ELSE backend
  /\ console' = IF ok THEN console
                ELSE console \cup {"Background node creation failed (fire-and-forget):"}
  /\ failed' = (failed \/ ~ok)
  /\ UNCHANGED <<shellVars, collapseVars, builderVars, aiVars, build, focuses, focusedNodeId, structLog, structs, scope, selectedDate, nodes, loading, obj, timers, log, lastSent, nextClient,
                 nextServer, edits, navs, creates, burst>>

\* ---------------------------------------------------------------- removal
\* node.parent.removeChild(node), on the heap
removeChild(node) ==
  [r \in DOMAIN obj |->
     IF r = node THEN [obj[r] EXCEPT !.parent = NullId]
     ELSE [obj[r] EXCEPT !.children = SelectSeq(@, LAMBDA n : n # node)]]

\* a removal that also drops the only node of the tree
RemovalAlways == TRUE

\* if (totalNodeCount > 1)
RemovalAllowed == totalNodeCount > 1

\* a removal that cancels the pending timers of the node
TimersAfterRemoveCancelled(node) ==
  Rerender(SelectSeq(timers, LAMBDA t : t.nodeId # obj[node].id))

\* handleRemoveNode leaves the debounce timers alone; its setNodes re-renders
TimersAfterRemove(node) == Rerender(timers)

\* onRemoveNode={handleRemoveNode}: the editor asks to delete a node of the tree
handleRemoveNode(node) ==
  /\ node \in InTree
  /\ IF RemovalAllowed
     THEN /\ IF obj[node].parent # NullId
             THEN /\ obj' = removeChild(node)
                  /\ nodes' = nodes
             ELSE /\ nodes' = SelectSeq(nodes, LAMBDA n : obj[n].id # obj[node].id)
                  /\ obj' = obj
          /\ timers' = TimersAfterRemove(node)
     ELSE UNCHANGED <<nodes, obj, timers>>
  /\ burst' = NoBurst
  /\ UNCHANGED <<failed, shellVars, collapseVars, builderVars, aiVars, build, focuses, focusedNodeId, console, structLog, structs, scope, selectedDate,
                 loading, calls, log, lastSent, backend, nextClient, nextServer, edits, navs,
                 creates>>

\* ------------------------------------------------------- structural changes
\* the argument object of the call: { operation, nodeId }
StructureArgs(operation, nodeId) == [operation |-> operation, nodeId |-> nodeId]

StructureCall(operation, nodeId) ==
  Call("update_node_structure", nodeId, <<operation>>, NoDate, <<>>, 0)

\* a structure save that waits in a slot a later change overwrites
saveStructureChangeCoalesced(operation, nodeId) ==
  IF structLog = <<>> THEN <<[operation |-> operation, nodeId |-> nodeId]>>
  ELSE [structLog EXCEPT ![Len(structLog)] = [operation |-> operation, nodeId |-> nodeId]]

\* saveStructureChange(operation, nodeId) up to its await: the calls
\* dispatched so far, in order
saveStructureChange(operation, nodeId) ==
  Append(structLog, StructureArgs(operation, nodeId))

Operations == {"indent", "move"}

\* the tree the editor makes of the one on display: the root at index i
\* becomes the last child of the root before it, or changes place with it
EditedNodes(operation, i) ==
  IF operation = "indent"
  THEN SubSeq(nodes, 1, i - 1) \o SubSeq(nodes, i + 1, Len(nodes))
  ELSE [nodes EXCEPT ![i - 1] = nodes[i], ![i] = nodes[i - 1]]

EditedObjects(operation, i) ==
  IF operation = "indent"
  THEN [obj EXCEPT ![nodes[i]].parent = obj[nodes[i - 1]].id,
                   ![nodes[i - 1]].children = Append(@, nodes[i])]
  ELSE obj

\* A structural edit in the editor: it changes its tree, reports it with
\* callbacks.onNodesChange(newNodes) and reports the change with
\* callbacks.onNodeStructureChange(operation, nodeId)
onNodeStructureChange(operation, i) ==
  /\ Used < MaxSteps
  /\ i \in 2..Len(nodes)
  /\ structs' = structs + 1
  /\ obj' = EditedObjects(operation, i)
  /\ nodes' = EditedNodes(operation, i)
  /\ timers' = Rerender(timers)
  /\ Issue(StructureCall(operation, obj[nodes[i]].id))
  /\ structLog' = saveStructureChange(operation, obj[nodes[i]].id)
  /\ burst' = NoBurst
  /\ UNCHANGED <<failed, shellVars, collapseVars, builderVars, aiVars, build, focuses, focusedNodeId, console, scope, selectedDate, loading, backend,
                 nextClient, nextServer, edits, navs, creates>>

\* a catch that drops the tree so that it is loaded again
StructureCatchDropsTree(c) == <<>>

\* catch (error) { console.error(...) }: the tree after the catch
StructureCatch(c) == nodes

\* saveStructureChange after its await
StructureReply(c, ok) ==
  /\ BagIn(c, calls)
  /\ c.cmd = "update_node_structure"
  /\ calls' = calls (-) SetToBag({c})
  /\ IF ok
     THEN UNCHANGED <<nodes, console>>
     ELSE /\ nodes' = StructureCatch(c)
          /\ console' = console \cup {"Failed to save structure change:"}
  /\ failed' = (failed \/ ~ok)
  /\ UNCHANGED <<shellVars, collapseVars, builderVars, aiVars, build, focuses, focusedNodeId, structLog, structs, scope, selectedDate, loading,
                 obj, timers, log, lastSent, backend, nextClient, nextServer, edits, navs,
                 creates, burst>>

\* ------------------------------------------------------------------ focus
\* onFocus={handleFocus}: the editor reports the node that took the focus
handleFocus(nodeId) ==
  /\ Used < MaxSteps
  /\ \E n \in InTree : obj[n].id = nodeId
  /\ focuses' = focuses + 1
  /\ focusedNodeId' = nodeId
  /\ UNCHANGED <<failed, shellVars, collapseVars, builderVars, aiVars, build, selectedDate, nodes, loading, obj, timers, calls, log, lastSent, backend,
                 nextClient, nextServer, edits, navs, creates, burst, console,
                 structLog, structs, scope>>

\* onBlur={handleBlur}
handleBlur ==
  /\ focusedNodeId # NullId
  /\ focusedNodeId' = NullId
  /\ UNCHANGED <<failed, shellVars, collapseVars, builderVars, aiVars, build, focuses, selectedDate, nodes, loading, obj, timers, calls, log, lastSent, backend,
                 nextClient, nextServer, edits, navs, creates, burst, console,
                 structLog, structs, scope>>

\* --------------------------------------------------------------- collapse
\* an updater that builds the new set without copying the previous one
setCollapsedFromEmpty(prev, nodeId, collapsed) ==
  IF collapsed THEN {nodeId} ELSE {}

\* the updater of setCollapsedNodes: newSet = new Set(prev), then add or delete
setCollapsed(prev, nodeId, collapsed) ==
  IF collapsed THEN prev \cup {nodeId} ELSE prev \ {nodeId}

\* onCollapseChange={handleCollapseChange}: the editor reports that a node was
\* collapsed or expanded
handleCollapseChange(nodeId, collapsed) ==
  /\ Used < MaxSteps
  /\ \E n \in InTree : obj[n].id = nodeId
  /\ collapses' = collapses + 1
  /\ collapsedNodes' = setCollapsed(collapsedNodes, nodeId, collapsed)
  /\ UNCHANGED <<failed, shellVars, builderVars, aiVars, build, selectedDate, nodes, loading, obj, timers, calls,
                 log, lastSent, backend, nextClient, nextServer, edits, navs, creates, burst,
                 focusedNodeId, console, structLog, structs, scope, focuses>>

\* ------------------------------------------------------ tree builder runs
\* after mount, get_nodes_for_date is about to answer with some reply
InitBuilder ==
  /\ InitApp("faf")
  /\ payload \in Payloads
  /\ built = NotBuilt
  /\ InitQueries
  /\ InitBarIdle
  /\ InitThemeIdle

\* const frontendNodes = convertToBaseNodes(hierarchicalData)
Build ==
  /\ payload.shape # "none"
  /\ ~built.done
  /\ built' = [done |-> TRUE, nodes |-> convertToBaseNodes(payload)]
  /\ UNCHANGED <<failed, shellVars, collapseVars, aiVars, payload, build, selectedDate, nodes, loading, obj,
                 timers, calls, log, lastSent, backend, nextClient, nextServer, edits, navs,
                 creates, burst, focusedNodeId, console, structLog, structs, scope,
                 focuses>>

SpecBuilder == InitBuilder /\ [][Build]_vars

\* -------------------------------------------------------------- AI queries
\* the questions a user asks
Questions == {<<"why">>, <<"how">>}

\* what process_query resolves with: the answer, its sources and the
\* confidence (in tenths)
QueryResponse(question) ==
  [answer |-> <<"answer", "to">> \o question, sources |-> <<BackendId(1)>>,
   confidence |-> 9, generationTimeMs |-> 120]

\* what process_query rejects with
QueryErrors == {<<"Question", "cannot", "be", "empty">>, TransportError}

QueryOutcomes ==
  {[ok |-> TRUE, error |-> <<>>]} \cup {[ok |-> FALSE, error |-> e] : e \in QueryErrors}

\* the ids queries are given, in the order of their issue
QueryIds == 1..MaxSteps

\* const response = await invoke('process_query', { question: query })
QueryCall(q) == Call("process_query", NullId, q.question, NoDate, <<>>, q.q)

\* the metadata of an answered query
SuccessMetadata(q, response) ==
  [question |-> q.question, answer |-> response.answer, sources |-> response.sources,
   confidence |-> response.confidence, generationTimeMs |-> response.generationTimeMs]

\* a failure entry that keeps the sources of the exchange before it
FailureMetadataKeepsSources(q, error) ==
  [question |-> q.question, error |-> error, confidence |-> 0,
   sources |-> IF q.node \in DOMAIN metadata THEN metadata[q.node].sources ELSE <<>>]

\* the metadata of a failed query
FailureMetadata(q, error) ==
  [question |-> q.question, error |-> error, confidence |-> 0, sources |-> <<>>]

\* a write-back that is made for answered queries only
WritesBackOnSuccess(q, outcome) == outcome.ok

\* the write-back is made whatever the outcome
WritesBack(q, outcome) == TRUE

\* an upsert that does not replace what a query issued later has written
AttachUnlessNewer(q, m) ==
  IF \E i \in DOMAIN writes : writes[i].node = q.node /\ writes[i].q > q.q
  THEN metadata
  ELSE [id \in DOMAIN metadata \cup {q.node} |-> IF id = q.node THEN m ELSE metadata[id]]

\* the upsert of metadata m on the node of query q: it replaces what the node had
Attach(q, m) ==
  [id \in DOMAIN metadata \cup {q.node} |-> IF id = q.node THEN m ELSE metadata[id]]

\* handleAIQuery(query) up to its await, for a query asked on node nodeId
handleAIQuery(nodeId, question) ==
  /\ Used < MaxSteps
  /\ \E n \in InTree : obj[n].id = nodeId
  /\ asked' = asked + 1
  /\ LET q == [q |-> asked + 1, node |-> nodeId, question |-> question]
     IN /\ queries' = queries \cup {q}
        /\ Issue(QueryCall(q))
  /\ UNCHANGED <<failed, shellVars, collapseVars, builderVars, metadata, writes, build, selectedDate, nodes,
                 loading, obj, timers, backend, nextClient, nextServer, edits, navs,
                 creates, burst, focusedNodeId, console, structLog, structs, scope,
                 focuses>>

\* handleAIQuery after its await: the query ends and its outcome is written
\* back on the node it was asked on
QueryReply(k, outcome) ==
  /\ \E q \in queries :
       /\ q.q = k
       /\ BagIn(QueryCall(q), calls)
       /\ queries' = queries \ {q}
       /\ calls' = calls (-) SetToBag({QueryCall(q)})
       /\ IF WritesBack(q, outcome)
          THEN /\ metadata' = Attach(q, IF outcome.ok
                                        THEN SuccessMetadata(q, QueryResponse(q.question))
                                        ELSE FailureMetadata(q, outcome.error))
               /\ writes' = Append(writes, [q |-> q.q, node |-> q.node, ok |-> outcome.ok])
          ELSE UNCHANGED <<metadata, writes>>
  /\ failed' = (failed \/ ~outcome.ok)
  /\ UNCHANGED <<shellVars, collapseVars, builderVars, asked, build, selectedDate, nodes, loading, obj,
                 timers, log, lastSent, backend, nextClient, nextServer, edits, navs, creates,
                 burst, focusedNodeId, console, structLog, structs, scope, focuses>>

\* the fire-and-forget build with the AI chat: queries, date changes, loads
\* and deletions
NextAI ==
  \/ \E n \in InTree, question \in Questions : handleAIQuery(obj[n].id, question)
  \/ \E k \in QueryIds, outcome \in QueryOutcomes : QueryReply(k, outcome)
  \/ \E day \in Days : Navigate(day)
  \/ \E c \in BagToSet(calls), ok \in BOOLEAN : LoadReply(c, ok)
  \/ \E c \in BagToSet(calls), ok \in BOOLEAN : CreateWithIdReply(c, ok)
  \/ \E node \in DOMAIN obj : handleRemoveNode(node)

SpecAI == InitFaf /\ [][NextAI]_vars

\* process_query is a backend command: every invoke of it is answered
FairSpecAI ==
  SpecAI /\ \A k \in QueryIds : WF_vars(\E outcome \in QueryOutcomes : QueryReply(k, outcome))

\* ----------------------------------------------------- date navigation bar
\* the years the selected date is taken from: a common year, leap years and
\* a century that is not a leap year
Years == {1900, 2000, 2023, 2024}

IsLeapYear(y) == y % 4 = 0 /\ (y % 100 # 0 \/ y % 400 = 0)

DaysInMonth(y, m) ==
  IF m = 2 THEN (IF IsLeapYear(y) THEN 29 ELSE 28)
  ELSE IF m \in {4, 6, 9, 11} THEN 30 ELSE 31

\* a Date, to the day: getFullYear(), getMonth() + 1, getDate()
DateOf(y, m, d) == [year |-> y, month |-> m, date |-> d]

SelectableDates ==
  {DateOf(y, m, d) : y \in Years, m \in 1..12, d \in 1..31} \cap
  {D \in [year : Years, month : 1..12, date : 1..31] : D.date <= DaysInMonth(D.year, D.month)}

\* a setDate that stops at the ends of the month
setDateClamped(D, n) ==
  [D EXCEPT !.date = IF n < 1 THEN 1
                     ELSE IF n > DaysInMonth(D.year, D.month)
                          THEN DaysInMonth(D.year, D.month) ELSE n]

\* Date.prototype.setDate(n) on the value D: a day outside the month moves
\* into the months before or after
RECURSIVE setDate(_, _)
setDate(D, n) ==
  IF n < 1
  THEN LET py == IF D.month = 1 THEN D.year - 1 ELSE D.year
           pm == IF D.month = 1 THEN 12 ELSE D.month - 1
       IN setDate(DateOf(py, pm, 1), n + DaysInMonth(py, pm))
  ELSE IF n > DaysInMonth(D.year, D.month)
  THEN LET ny == IF D.month = 12 THEN D.year + 1 ELSE D.year
           nm == IF D.month = 12 THEN 1 ELSE D.month + 1
       IN setDate(DateOf(ny, nm, 1), n - DaysInMonth(D.year, D.month))
  ELSE [D EXCEPT !.date = n]

\* the bar is rendered with some selected date
InitBar ==
  /\ dateObjs \in {<<D>> : D \in SelectableDates}
  /\ barSelectedDate = 1
  /\ dateCalls = <<>>
  /\ clicks = 0

\* onDateChange(date): the parent selects the date (handleDateChange) and
\* renders the bar with it
onDateChange(button, date) ==
  /\ dateCalls' = Append(dateCalls, [button |-> button, selected |-> barSelectedDate,
                                     date |-> date])
  /\ barSelectedDate' = date

\* const day = new Date(selectedDate); day.setDate(selectedDate.getDate() + delta);
\* onDateChange(day)
goByDays(button, delta) ==
  LET day == Len(dateObjs) + 1
      selected == dateObjs[barSelectedDate]
  IN /\ dateObjs' = Append(dateObjs, setDate(selected, selected.date + delta))
     /\ onDateChange(button, day)

BarUnchanged ==
  UNCHANGED <<build, selectedDate, nodes, loading, obj, timers, calls, log, backend,
              nextClient, nextServer, edits, navs, creates, burst, focusedNodeId,
              console, structLog, structs, scope, focuses, collapseVars, builderVars,
              aiVars, lastSent, failed, themeVars>>

goToPreviousDay ==
  /\ Used < MaxSteps
  /\ clicks' = clicks + 1
  /\ goByDays("previous", -1)
  /\ BarUnchanged

goToNextDay ==
  /\ Used < MaxSteps
  /\ clicks' = clicks + 1
  /\ goByDays("next", 1)
  /\ BarUnchanged

\* the dates new Date() gives when the button is clicked
Todays == {DateOf(2024, 6, 23), DateOf(2024, 12, 31)}

\* onDateChange(new Date())
goToToday(today) ==
  /\ Used < MaxSteps
  /\ clicks' = clicks + 1
  /\ dateObjs' = Append(dateObjs, today)
  /\ onDateChange("today", Len(dateObjs) + 1)
  /\ BarUnchanged

NextBar ==
  \/ goToPreviousDay
  \/ goToNextDay
  \/ \E today \in Todays : goToToday(today)

\* the bar alone, beside an App that has just mounted
InitBarOnly == InitPlain("faf") /\ InitBar /\ InitThemeIdle

SpecBar == InitBarOnly /\ [][NextBar]_vars

\* -------------------------------------------------------------- theme hook
\* type ThemeMode
ThemeModes == {"light", "dark", "auto"}

\* mediaQuery.matches ? 'dark' : 'light'
SystemTheme(dark) == IF dark THEN "dark" ELSE "light"

\* (saved as ThemeMode) || 'auto'
SavedMode(saved) == IF saved = NoItem THEN "auto" ELSE saved

\* the initialiser of currentTheme
InitialTheme(mode, dark) == IF mode = "auto" THEN SystemTheme(dark) ELSE mode

\* the first render of a component that calls useTheme; its effects have
\* still to run
Mount ==
  /\ themeMode' = SavedMode(stored)
  /\ currentTheme' = InitialTheme(SavedMode(stored), osDark)
  /\ listening' = FALSE
  /\ effectsPending' = TRUE

InitTheme ==
  /\ stored \in {NoItem} \cup ThemeModes
  /\ osDark \in BOOLEAN
  /\ themeMode = SavedMode(stored)
  /\ currentTheme = InitialTheme(themeMode, osDark)
  /\ listening = FALSE
  /\ effectsPending = TRUE
  /\ themeLog = <<>>

ThemeUnchanged ==
  UNCHANGED <<build, selectedDate, nodes, loading, obj, timers, calls, log, backend,
              nextClient, nextServer, edits, navs, creates, burst, focusedNodeId,
              console, structLog, structs, scope, focuses, collapseVars, builderVars,
              aiVars, lastSent, failed, barVars>>

ThemeEvent(event) == [event |-> event, was |-> themeMode, theme |-> currentTheme]

\* effects that leave the listener of the auto mode registered
RunEffectsNoCleanup ==
  /\ effectsPending
  /\ effectsPending' = FALSE
  /\ listening' = (listening \/ themeMode = "auto")
  /\ currentTheme' = IF themeMode = "auto" THEN SystemTheme(osDark) ELSE themeMode
  /\ UNCHANGED <<themeMode, stored, osDark, themeLog>>
  /\ ThemeUnchanged

\* the effects with deps [themeMode], after the render that changed it: the
\* cleanup of the listener, then the listener and the theme of the new mode
RunEffects ==
  /\ effectsPending
  /\ effectsPending' = FALSE
  /\ listening' = (themeMode = "auto")
  /\ currentTheme' = IF themeMode = "auto" THEN SystemTheme(osDark) ELSE themeMode
  /\ UNCHANGED <<themeMode, stored, osDark, themeLog>>
  /\ ThemeUnchanged

\* a setThemeMode that keeps the preference in memory only
setThemeModeUnsaved(mode) ==
  /\ themeMode' = mode
  /\ effectsPending' = (effectsPending \/ mode # themeMode)
  /\ UNCHANGED <<stored, currentTheme, osDark, listening>>

\* setThemeModeState(mode); localStorage.setItem(THEME_STORAGE_KEY, mode)
setThemeMode(mode) ==
  /\ themeMode' = mode
  /\ stored' = mode
  /\ effectsPending' = (effectsPending \/ mode # themeMode)
  /\ UNCHANGED <<currentTheme, osDark, listening>>

\* the user picks a mode
pickThemeMode(mode) ==
  /\ Used < MaxSteps
  /\ themeLog' = Append(themeLog, ThemeEvent("setThemeMode"))
  /\ setThemeMode(mode)
  /\ ThemeUnchanged

toggleTheme ==
  /\ Used < MaxSteps
  /\ themeLog' = Append(themeLog, ThemeEvent("toggleTheme"))
  /\ setThemeMode(IF currentTheme = "dark" THEN "light" ELSE "dark")
  /\ ThemeUnchanged

\* the operating system changes its colour scheme: handleChange runs when it
\* is registered.  While effects are pending its update is queued behind
\* theirs, which React runs before it renders again.
handleChange ==
  /\ Used < MaxSteps
  /\ themeLog' = Append(themeLog, ThemeEvent("system"))
  /\ osDark' = ~osDark
  /\ currentTheme' = IF listening /\ ~effectsPending THEN SystemTheme(~osDark)
                     ELSE currentTheme
  /\ UNCHANGED <<themeMode, stored, listening, effectsPending>>
  /\ ThemeUnchanged

\* the application is closed and started again
Restart ==
  /\ Used < MaxSteps
  /\ themeLog' = Append(themeLog, ThemeEvent("restart"))
  /\ Mount
  /\ UNCHANGED <<stored, osDark>>
  /\ ThemeUnchanged

NextTheme ==
  \/ RunEffects
  \/ \E mode \in ThemeModes : pickThemeMode(mode)
  \/ toggleTheme
  \/ handleChange
  \/ Restart

\* the hook alone, beside an App that has just mounted
InitThemeOnly == InitPlain("faf") /\ InitBarIdle /\ InitTheme

SpecTheme == InitThemeOnly /\ [][NextTheme]_vars

\* ------------------------------------------------------------------- Next
Shared ==
  \/ \E day \in Days : Navigate(day)
  \/ \E c \in BagToSet(calls), ok \in BOOLEAN : LoadReply(c, ok)
  \/ \E nodeId \in IdsInTree, content \in Contents : onNodeChange(nodeId, content)
  \/ FireSave
  \/ \E c \in BagToSet(calls), outcome \in Outcomes : UpdateReply(c, outcome)
  \/ \E node \in DOMAIN obj : handleRemoveNode(node)
  \/ \E operation \in Operations, i \in DOMAIN nodes : onNodeStructureChange(operation, i)
  \/ \E c \in BagToSet(calls), ok \in BOOLEAN : StructureReply(c, ok)
  \/ \E n \in InTree : handleFocus(obj[n].id)
  \/ handleBlur
  \/ \E n \in InTree, collapsed \in BOOLEAN : handleCollapseChange(obj[n].id, collapsed)

\* the handlers only the virtual build has
VirtualOnly ==
  \/ FireCreate
  \/ \E c \in BagToSet(calls), outcome \in {"same", "different", "error"} : PromoteReply(c, outcome)
  \/ \E content \in {<<>>, <<"x", " ">>} : onNodeCreate(content)
  \/ \E c \in BagToSet(calls), ok \in BOOLEAN : NodeCreateReply(c, ok)

\* the handlers only the fire-and-forget build has
FafOnly ==
  \/ \E content \in {<<>>, <<"x", " ">>} : onNodeCreateWithId(content)
  \/ \E c \in BagToSet(calls), ok \in BOOLEAN : CreateWithIdReply(c, ok)

NextVirtual == Shared \/ VirtualOnly

NextFaf == Shared \/ FafOnly

Next == Shared \/ VirtualOnly \/ FafOnly

SpecVirtual == InitVirtual /\ [][NextVirtual]_vars

SpecFaf == InitFaf /\ [][NextFaf]_vars

Spec == Init /\ [][Next]_vars

\* ================================================================= claims
IsPromote(e) == e.cmd = "create_node_for_date" /\ e.id # NullId

IsCreate(e) == e.cmd \in {"create_node_for_date", "create_node_for_date_with_id"}

\* the promotion calls issued so far, with their multiplicity
PromoteCount ==
  LET S == {e \in BagToSet(log) : IsPromote(e)}
  IN IF S = {} THEN 0 ELSE BagCardinality([e \in S |-> CopiesIn(e, log)])

VirtualInTree == {i \in DOMAIN nodes : obj[nodes[i]].isVirtual}

\* timer t of the pending timers is still pending after the step
StillPending(t) ==
  \E j \in DOMAIN timers' :
     /\ timers'[j].kind = t.kind
     /\ timers'[j].nodeId = t.nodeId
     /\ timers'[j].content = t.content

C2_EditsIndependent ==
  [][\A nodeId \in IdsInTree, content \in Contents :
       onNodeChange(nodeId, content) =>
         \A i \in DOMAIN timers : timers[i].nodeId # nodeId => StillPending(timers[i])]_vars

\* C3: at most one debounce timer is pending per node id.
C3_OneTimerPerNode ==
  \A i, j \in DOMAIN timers : timers[i].nodeId = timers[j].nodeId => i = j

\* C4: the keystrokes of one run on a virtual node, each arriving before the
\* window of the previous one has elapsed, lead to at most one create call,
\* and it carries the latest (trimmed) content.
C4_OnePromotionPerWindow ==
  (burst.node # NullId /\ burst.virt) =>
    /\ Len(burst.sent) <= 1
    /\ burst.sent # <<>> => burst.sent[1] = Trim(burst.last)

C6_EmptyLoadGivesVirtual ==
  [][\A c \in BagToSet(calls) :
       (LoadReply(c, TRUE) /\ backend[c.date] = <<>>) =>
          /\ Len(nodes') = 1
          /\ obj'[nodes'[1]].isVirtual
          /\ obj'[nodes'[1]].content = <<>>
          /\ obj'[nodes'[1]].parent = NullId
          /\ obj'[nodes'[1]].dateContext = c.date
          /\ log' = log]_vars

\* C7: a failed promotion leaves the tree, the node objects (so the node is
\* still virtual with its id and content) and the pending timers as they
\* were and issues no call; no create call exists that an edit did not arm
\* (the promotion calls never outnumber the edits); and every edit of a
\* virtual node arms a new create timer for it.
C7_FailedPromotionNoRetry ==
  /\ [][\A c \in BagToSet(calls) :
          PromoteReply(c, "error") =>
            /\ nodes' = nodes
            /\ obj' = obj
            /\ timers' = timers
            /\ log' = log
            /\ calls' = calls (-) SetToBag({c})]_vars
  /\ [](PromoteCount <= edits)
  /\ [][\A nodeId \in IdsInTree, content \in Contents :
          (onNodeChange(nodeId, content) /\ obj[Find(nodes, nodeId)].isVirtual) =>
            /\ Len(timers') = Len(timers) + 1
            /\ timers'[Len(timers')].kind = "create"
            /\ timers'[Len(timers')].nodeId = nodeId]_vars

\* a create call failed (it is no longer in flight, the node is still virtual
\* and the backend made no id), and a later attempt is in flight
C7_Witness ==
  \E e \in BagToSet(log) :
     /\ IsPromote(e)
     /\ obj[e.ref].isVirtual
     /\ nextServer = 0
     /\ CopiesIn(e, log) = 2
     /\ \E c \in BagToSet(calls) : Entry(c) = e /\ CopiesIn(c, calls) = 1

\* C8: every promotion call carries non-empty trimmed content; a create timer
\* that expires while its virtual node's content is empty or whitespace-only
\* issues no call and leaves the node virtual, and one that expires while the
\* content is non-blank issues the create call.
C8_PromotedOnlyWhenNonBlank ==
  /\ [](\A e \in BagToSet(log) : IsPromote(e) => e.content # <<>> /\ Trim(e.content) = e.content)
  /\ [][FireCreate =>
          LET t == Head(timers)
              v == Find(t.cap, t.nodeId)
          IN (v # 0 /\ obj[v].isVirtual) =>
               IF Trim(obj[v].content) = <<>>
               THEN log' = log /\ obj'[v].isVirtual
               ELSE \E e \in BagToSet(log') :
                       /\ IsPromote(e) /\ e.id = t.nodeId /\ e.content = Trim(obj[v].content)
                       /\ CopiesIn(e, log') = CopiesIn(e, log) + 1]_vars

\* a timer expired on a whitespace-only virtual node and no call was issued
C8_Witness ==
  /\ build = "virtual"
  /\ edits >= 1
  /\ timers = <<>>
  /\ PromoteCount = 0
  /\ \E i \in VirtualInTree : obj[nodes[i]].content = <<" ">>

C10_ClientAllocatesId ==
  /\ [][(\E content \in Contents \cup {<<>>} :
            onNodeCreate(content) \/ onNodeCreateWithId(content)) =>
          \E e \in BagToSet(log') :
             /\ IsCreate(e)
             /\ CopiesIn(e, log') = CopiesIn(e, log) + 1
             /\ e.id # NullId
             /\ \E i \in DOMAIN nodes' : obj'[nodes'[i]].id = e.id]_vars
  /\ [][\A c \in BagToSet(calls) :
          (NodeCreateReply(c, FALSE) \/ CreateWithIdReply(c, FALSE)) =>
             nodes' = nodes /\ obj' = obj]_vars

\* the calls of command cmd issued so far, with their multiplicity
CountCalls(cmd) ==
  LET S == {e \in BagToSet(log) : e.cmd = cmd}
  IN IF S = {} THEN 0 ELSE BagCardinality([e \in S |-> CopiesIn(e, log)])

\* the ids of the nodes of the tree on display, roots and descendants
IdsDisplayed == {obj[n].id : n \in InTree}

\* what is pending, whatever render armed it
Pending(ts) ==
  [i \in DOMAIN ts |-> [kind |-> ts[i].kind, nodeId |-> ts[i].nodeId, content |-> ts[i].content]]

C12_StructureNoRollback ==
  /\ [][\A operation \in Operations, i \in DOMAIN nodes :
          onNodeStructureChange(operation, i) =>
            /\ nodes' = EditedNodes(operation, i)
            /\ obj' = EditedObjects(operation, i)
            /\ nodes' # nodes]_vars
  /\ [][\A c \in BagToSet(calls) :
          StructureReply(c, FALSE) =>
            /\ nodes' = nodes
            /\ obj' = obj
            /\ log' = log
            /\ timers' = timers
            /\ calls' = calls (-) SetToBag({c})]_vars

\* a structural call failed and the indent it reported is still in the tree
C12_Witness ==
  /\ "Failed to save structure change:" \in console
  /\ structLog = <<[operation |-> "indent", nodeId |-> BackendId(2)]>>
  /\ \E n \in InTree : obj[n].id = BackendId(2) /\ obj[n].parent = BackendId(1)

GetsInFlight == {c \in BagToSet(calls) : c.cmd = "get_nodes_for_date"}

\* every node of the tree on display was loaded or created for date d
TreeInScope(d) == \A n \in InTree : scope[n] = d

\* C17: when the load of the selected date completes and no other load is in
\* flight, the tree holds only nodes built for that date and none of the
\* tree it replaces; and until the next date change or load no step brings a
\* node of another date into the tree.
C17_TreeReplacedOnDateChange ==
  /\ [][\A c \in BagToSet(calls), ok \in BOOLEAN :
          (LoadReply(c, ok) /\ c.date = DateStr(selectedDate)
             /\ GetsInFlight = {c} /\ CopiesIn(c, calls) = 1) =>
            /\ \A n \in InTree' : scope'[n] = c.date /\ n \notin DOMAIN obj
            /\ loading' = FALSE]_vars
  /\ [][(TreeInScope(DateStr(selectedDate)) /\ selectedDate' = selectedDate
           /\ \A c \in GetsInFlight : CopiesIn(c, calls') = CopiesIn(c, calls)) =>
          TreeInScope(DateStr(selectedDate))']_vars

\* the tree of the second date is on display after a date change away from
\* the first date, whose node objects are no longer in the tree
C17_Witness ==
  /\ navs = 1
  /\ selectedDate = 2
  /\ loading = FALSE
  /\ GetsInFlight = {}
  /\ nodes # <<>>
  /\ TreeInScope(DateStr(2))
  /\ \E r \in DOMAIN obj : scope[r] = DateStr(1) /\ r \notin InTree

\* C18: as long as the user has only changed dates, the calls issued are
\* get_nodes_for_date calls alone, one for the mount and one per date
\* change, each for the date selected by that change.
C18_NavigationOnlyLoads ==
  /\ [](Used = navs =>
          /\ \A e \in BagToSet(log) : e.cmd = "get_nodes_for_date"
          /\ CountCalls("get_nodes_for_date") = navs + 1)
  /\ [][\A day \in Days :
          Navigate(day) => log' = log (+) SetToBag({Entry(GetCall(day))})]_vars

\* C19: when get_nodes_for_date is rejected, the loading flag is cleared and
\* the tree becomes one virtual node with empty content that carries the
\* requested date.
C19_LoadFailureGivesPlaceholder ==
  [][\A c \in BagToSet(calls) :
       LoadReply(c, FALSE) =>
         /\ loading' = FALSE
         /\ Len(nodes') = 1
         /\ obj'[nodes'[1]].isVirtual
         /\ obj'[nodes'[1]].content = <<>>
         /\ obj'[nodes'[1]].dateContext = c.date]_vars

\* C20: once a date change and every load have completed and the tree of
\* the selected date is on display, focusedNodeId is null, or names a node
\* of that tree (one focused since), and so does not keep referring to a
\* node of the previous scope.
C20_DateChangeResetsFocus ==
  (navs >= 1 /\ GetsInFlight = {} /\ ~loading /\ nodes # <<>>
     /\ TreeInScope(DateStr(selectedDate))) =>
       (focusedNodeId = NullId \/ focusedNodeId \in IdsDisplayed)

\* C21: a date change and the completion of a load leave the collapsed-node
\* set as it is, and so does every step other than a collapse or expand
\* event; a collapse event puts the node id into the set, an expand event
\* takes it out, and neither touches any other id of the set.
C21_CollapsedOnlyByEvents ==
  /\ [][\A day \in Days : Navigate(day) => collapsedNodes' = collapsedNodes]_vars
  /\ [][\A c \in BagToSet(calls), ok \in BOOLEAN :
          LoadReply(c, ok) => collapsedNodes' = collapsedNodes]_vars
  /\ [][collapses' = collapses => collapsedNodes' = collapsedNodes]_vars
  /\ [][\A nodeId \in IdsDisplayed, collapsed \in BOOLEAN :
          handleCollapseChange(nodeId, collapsed) =>
            /\ (nodeId \in collapsedNodes') = collapsed
            /\ \A id \in (collapsedNodes \cup collapsedNodes') \ {nodeId} :
                 (id \in collapsedNodes') = (id \in collapsedNodes)]_vars

\* a node of the first date was collapsed, and its id is still in the set
\* while the tree of the second date is on display
C21_Witness ==
  /\ navs >= 1
  /\ ~loading
  /\ nodes # <<>>
  /\ TreeInScope(DateStr(selectedDate))
  /\ \E id \in collapsedNodes : id \notin IdsDisplayed

\* the entries of a hierarchy, at every level
RECURSIVE AllEntries(_)
AllEntries(hs) ==
  IF hs = <<>> THEN {}
  ELSE {Head(hs)} \cup AllEntries(Head(hs).children) \cup AllEntries(Tail(hs))

\* the ids of the nodes the tree builder returned, in their order
BuiltIds == [i \in DOMAIN built.nodes |-> built.nodes[i].id]

\* C22: for a nested reply the tree builder returns the pre-order flattening:
\* the hierarchy made of the output's ids and depths, read in output order,
\* is the reply itself (every entry once, a parent before its descendants,
\* siblings in the reply's order), each output node carries the id, depth,
\* sibling index and parent id of its entry, and a reply that is null, has no
\* children field or has no children gives the empty tree.
C22_NestedPreOrder ==
  built.done =>
    /\ payload.shape = "nested" =>
         /\ Hierarchy([i \in DOMAIN built.nodes |->
                         [id |-> built.nodes[i].id, depth |-> built.nodes[i].depth]],
                      0, NullId, 0) = payload.children
         /\ Len(built.nodes) = Cardinality(AllEntries(payload.children))
         /\ \A i \in DOMAIN built.nodes :
              \E e \in AllEntries(payload.children) :
                 /\ e.node.id = built.nodes[i].id
                 /\ e.depth = built.nodes[i].depth
                 /\ e.sibling_index = built.nodes[i].siblingIndex
                 /\ e.parent_id = built.nodes[i].parentId
         /\ payload.children = <<>> => built.nodes = <<>>
    /\ payload.shape \in {"null", "bare"} => built.nodes = <<>>

\* a reply of one root with two children, the root not the first id, was built
C22_Witness ==
  /\ built.done
  /\ payload.shape = "nested"
  /\ Len(built.nodes) = 3
  /\ Len(payload.children) = 1
  /\ built.nodes[3].depth = 1
  /\ built.nodes[2].depth = 1
  /\ built.nodes[1].id # BackendId(1)

\* the entry of a flat reply that has the id, 0 if none
EntryOf(entries, id) ==
  LET hits == {i \in DOMAIN entries : entries[i].id = id}
  IN IF hits = {} THEN 0 ELSE MinOf(hits)

\* the ids met from id along the nextSibling pointers, stopping at null, at
\* an id no entry has, and at an id already met
RECURSIVE ChainWalk(_, _, _)
ChainWalk(entries, id, visited) ==
  IF id = NullId \/ id \in visited \/ EntryOf(entries, id) = 0 THEN <<>>
  ELSE <<id>> \o ChainWalk(entries, entries[EntryOf(entries, id)].nextSibling,
                           visited \cup {id})

Heads(entries) == {i \in DOMAIN entries : entries[i].previousSibling = NullId}

\* the walks from the chain heads, in the order of the heads in the reply,
\* each skipping what an earlier walk has met
RECURSIVE WalkHeads(_, _, _)
WalkHeads(entries, hs, visited) ==
  IF hs = {} THEN <<>>
  ELSE LET w == ChainWalk(entries, entries[MinOf(hs)].id, visited)
       IN w \o WalkHeads(entries, hs \ {MinOf(hs)},
                         visited \cup {w[i] : i \in DOMAIN w})

\* one head, whose chain meets every entry and ends with null, and
\* previousSibling the inverse of nextSibling
ValidChain(entries) ==
  /\ Cardinality(Heads(entries)) = 1
  /\ \A i \in Heads(entries) :
       Len(ChainWalk(entries, entries[i].id, {})) = Len(entries)
  /\ \A i \in DOMAIN entries :
       entries[i].nextSibling # NullId =>
         /\ EntryOf(entries, entries[i].nextSibling) # 0
         /\ entries[EntryOf(entries, entries[i].nextSibling)].previousSibling
              = entries[i].id

\* C23: for a flat reply whose pointers form one valid chain the tree builder
\* returns the nodes in chain order from the head, whatever their order in
\* the reply, every node once.
C23_FlatChainOrder ==
  (built.done /\ payload.shape = "flat" /\ ValidChain(payload.entries)) =>
     BuiltIds = WalkHeads(payload.entries, Heads(payload.entries), {})

\* C24: for a flat reply whose pointers are malformed (a cycle, a dangling
\* link, no head, several heads) the tree builder ends and returns every
\* node of the reply exactly once: first what the walks from the heads meet,
\* then the nodes no walk met, in the order of the reply.
C24_MalformedFlatComplete ==
  (built.done /\ payload.shape = "flat" /\ ~ValidChain(payload.entries)) =>
     LET walked == WalkHeads(payload.entries, Heads(payload.entries), {})
         met == {walked[i] : i \in DOMAIN walked}
         rest == SelectSeq([i \in DOMAIN payload.entries |-> payload.entries[i].id],
                           LAMBDA id : id \notin met)
     IN BuiltIds = walked \o rest

\* what a structural persistence call has to carry
StructureFields ==
  {"operation", "nodeId", "parentId", "formerParentId", "depth", "beforeSiblingId",
   "dateScope", "timestamp"}

\* C25: the argument object of every structural persistence call dispatched
\* has the operation kind, the node id, the new and the former parent id, the
\* resulting depth, the id of the preceding sibling, the date scope and a
\* client timestamp.
C25_StructureCallCarriesPosition ==
  \A i \in DOMAIN structLog : StructureFields \subseteq DOMAIN structLog[i]

\* C29: a save timer that expires issues update_node_content only if its
\* node is at that moment in the tree on display and is not virtual;
\* otherwise the expiry issues no call.
C29_SaveOnlyForPresentRealNodes ==
  [][(FireSave /\ log' # log) =>
       \E n \in InTree : obj[n].id = Head(timers).nodeId /\ ~obj[n].isVirtual]_vars

\* C30: a delete request that removes a node dispatches, in the same step, a
\* delete persistence call for that node.
C30_DeleteDispatchesCall ==
  [][\A node \in InTree :
       (handleRemoveNode(node) /\ node \notin InTree') =>
         \E e \in BagToSet(log') :
            /\ e.id = obj[node].id
            /\ e.cmd \notin {"get_nodes_for_date", "update_node_content",
                             "update_node_structure", "create_node_for_date",
                             "create_node_for_date_with_id"}
            /\ CopiesIn(e, log') = CopiesIn(e, log) + 1]_vars

\* query k has been issued and is not answered yet
QueryPending(k) == \E q \in queries : q.q = k

\* the write-backs query k has made
WritesOf(k) == {i \in DOMAIN writes : writes[i].q = k}

\* C26: every query issued is pending with no write-back made, or has ended
\* with exactly one write-back; a query leaves the pending set only in a step
\* that writes its outcome back on the node it was asked on (no date change,
\* load or deletion cancels it); and every pending query ends.
C26_QueryAlwaysWritesBack ==
  /\ [](\A k \in 1..asked :
          Cardinality(WritesOf(k)) = IF QueryPending(k) THEN 0 ELSE 1)
  /\ [][\A q \in queries :
          q \notin queries' =>
            /\ Len(writes') = Len(writes) + 1
            /\ writes'[Len(writes')].q = q.q
            /\ writes'[Len(writes')].node = q.node
            /\ q.node \in DOMAIN metadata'
            /\ metadata'[q.node].question = q.question]_vars
  /\ \A k \in QueryIds : QueryPending(k) ~> ~QueryPending(k)

\* a query failed and was written back on a node that had left the tree
C26_Witness ==
  \E i \in DOMAIN writes :
     /\ ~writes[i].ok
     /\ writes[i].node \notin IdsDisplayed
     /\ "error" \in DOMAIN metadata[writes[i].node]

\* the last write-back made on node id, 0 if none
LastWrite(id) ==
  LET on == {i \in DOMAIN writes : writes[i].node = id}
  IN IF on = {} THEN 0 ELSE CHOOSE i \in on : \A j \in on : j <= i

\* C27: a rejected process_query leaves on the node it was asked on exactly
\* the question, the error, confidence 0 and no sources (no answer, nothing
\* of an earlier exchange); a node's metadata shows an error only when the
\* last query written back on it failed; and the failure of a load or of a
\* create call changes no metadata and is only logged.
C27_FailureMetadata ==
  /\ [][\A k \in QueryIds, e \in QueryErrors :
          QueryReply(k, [ok |-> FALSE, error |-> e]) =>
            \E q \in queries :
               /\ q.q = k
               /\ metadata'[q.node] = [question |-> q.question, error |-> e,
                                       confidence |-> 0, sources |-> <<>>]]_vars
  /\ [](\A id \in DOMAIN metadata :
          "error" \in DOMAIN metadata[id] <=> ~writes[LastWrite(id)].ok)
  /\ [][\A c \in BagToSet(calls) :
          (LoadReply(c, FALSE) \/ CreateWithIdReply(c, FALSE)) =>
            /\ metadata' = metadata
            /\ console' # {}]_vars

\* a query failed on a node that held the answer and sources of an earlier one
C27_Witness ==
  \E id \in DOMAIN metadata :
     /\ "error" \in DOMAIN metadata[id]
     /\ metadata[id].sources = <<>>
     /\ \E i \in DOMAIN writes : writes[i].node = id /\ writes[i].ok /\ i < LastWrite(id)

\* C28: the write-back of a query changes the metadata of no node but the one
\* it was asked on, and leaves on that node the metadata of this query,
\* whether or not a query issued later has been written back before; nothing
\* but a write-back changes metadata.
C28_QueriesIndependent ==
  /\ [][\A k \in QueryIds, outcome \in QueryOutcomes :
          QueryReply(k, outcome) =>
            \E q \in queries :
               /\ q.q = k
               /\ DOMAIN metadata' = DOMAIN metadata \cup {q.node}
               /\ \A id \in DOMAIN metadata \ {q.node} : metadata'[id] = metadata[id]
               /\ metadata'[q.node].question = q.question
               /\ ("error" \in DOMAIN metadata'[q.node]) = ~outcome.ok]_vars
  /\ [][writes' = writes => metadata' = metadata]_vars

\* two queries were asked on one node, the second was written back first, and
\* the node holds the metadata of the first
C28_Witness ==
  /\ Len(writes) = 2
  /\ writes[1].q = 2
  /\ writes[2].q = 1
  /\ writes[1].node = writes[2].node
  /\ \E e1, e2 \in BagToSet(log) :
        /\ e1.cmd = "process_query" /\ e1.ref = 1
        /\ e2.cmd = "process_query" /\ e2.ref = 2
        /\ e1.content # e2.content
        /\ metadata[writes[1].node].question = e1.content

\* ---- C31
\* the days of the years before year y, by the Gregorian rule
DaysBeforeYear(y) == 365 * (y - 1) + ((y - 1) \div 4) - ((y - 1) \div 100) + ((y - 1) \div 400)

RECURSIVE DaysBeforeMonth(_, _)
DaysBeforeMonth(y, m) == IF m = 1 THEN 0 ELSE DaysBeforeMonth(y, m - 1) + DaysInMonth(y, m - 1)

\* the number of the day D in the calendar
DayNumber(D) == DaysBeforeYear(D.year) + DaysBeforeMonth(D.year, D.month) + D.date

IsDate(D) == D.month \in 1..12 /\ D.date \in 1..DaysInMonth(D.year, D.month)

\* the click called onDateChange once, with a new Date delta days from the
\* selected one, and changed no Date that existed
CalledOnceWith(delta) ==
  /\ Len(dateCalls') = Len(dateCalls) + 1
  /\ LET passed == dateObjs'[dateCalls'[Len(dateCalls')].date]
     IN /\ IsDate(passed)
        /\ DayNumber(passed) = DayNumber(dateObjs[barSelectedDate]) + delta
  /\ \A r \in DOMAIN dateObjs : dateObjs'[r] = dateObjs[r]

\* C31: 'previous day' calls onDateChange exactly once with the selected date
\* minus one day and 'next day' exactly once with the selected date plus one
\* day, neither changes the selected Date itself, and a 'next' right after a
\* 'previous' (or a 'previous' right after a 'next') passes the date the
\* first of the two started from, across month and year boundaries too.
C31_PreviousNextDay ==
  /\ [][/\ goToPreviousDay => CalledOnceWith(-1)
        /\ goToNextDay => CalledOnceWith(1)]_vars
  /\ [](\A i \in 1..(Len(dateCalls) - 1) :
          {dateCalls[i].button, dateCalls[i + 1].button} = {"previous", "next"}
          => dateObjs[dateCalls[i + 1].date] = dateObjs[dateCalls[i].selected])

\* from the first of January 2024 the user went a day back, into 2023, and
\* then a day forward
C31_Witness ==
  /\ Len(dateCalls) = 2
  /\ dateCalls[1].button = "previous"
  /\ dateCalls[2].button = "next"
  /\ dateObjs[dateCalls[1].selected] = DateOf(2024, 1, 1)
  /\ dateObjs[dateCalls[1].date] = DateOf(2023, 12, 31)

\* ---- C32
\* the mode a hook starts in, given what is stored
ModeToRestore == IF stored = NoItem THEN "auto" ELSE stored

\* C32: after every setThemeMode and every toggleTheme the stored preference
\* equals themeMode; a newly initialised hook starts in the stored mode, in
\* 'auto' when nothing is stored; so a restart right after a save comes up in
\* the mode that was saved.
C32_ThemePreferencePersisted ==
  /\ [][((\E mode \in ThemeModes : pickThemeMode(mode)) \/ toggleTheme)
        => stored' = themeMode']_vars
  /\ [](themeLog = <<>> => themeMode = ModeToRestore)
  /\ [][Restart => themeMode' = ModeToRestore]_vars
  /\ [][(/\ Restart
         /\ themeLog # <<>>
         /\ themeLog[Len(themeLog)].event \in {"setThemeMode", "toggleTheme"})
        => themeMode' = themeMode]_vars

\* the user left 'auto' for 'dark' on a light system and restarted: the hook
\* came up in 'dark'
C32_Witness ==
  /\ Len(themeLog) = 2
  /\ themeLog[1].event = "setThemeMode"
  /\ themeLog[1].was = "auto"
  /\ themeLog[2].event = "restart"
  /\ themeLog[2].was = "dark"
  /\ themeMode = "dark"
  /\ ~osDark

\* ---- C33
ManualModes == {"light", "dark"}

\* C33: once the effects of the last change of mode have run, the effective
\* theme is the colour scheme of the operating system in 'auto' and the
\* selected mode in a manual mode; a change of the colour scheme of the
\* operating system in a manual mode changes neither; and toggleTheme leaves
\* a manual mode that is the opposite of the effective theme it found.
C33_EffectiveTheme ==
  /\ [](~effectsPending =>
          currentTheme = IF themeMode = "auto" THEN SystemTheme(osDark) ELSE themeMode)
  /\ [][(handleChange /\ themeMode \in ManualModes)
        => (currentTheme' = currentTheme /\ themeMode' = themeMode)]_vars
  /\ [][(handleChange /\ themeMode = "auto" /\ ~effectsPending)
        => currentTheme' = SystemTheme(osDark')]_vars
  /\ [][toggleTheme => (themeMode' \in ManualModes /\ themeMode' # currentTheme)]_vars

\* on a light system the user left 'auto' for 'light', the effects ran, and
\* then the system turned dark: the theme is still light
C33_Witness ==
  /\ Len(themeLog) = 2
  /\ themeLog[1].event = "setThemeMode"
  /\ themeLog[1].was = "auto"
  /\ themeLog[2].event = "system"
  /\ themeLog[2].was = "light"
  /\ themeLog[2].theme = "light"
  /\ themeMode = "light"
  /\ currentTheme = "light"
  /\ osDark
  /\ ~effectsPending

\* ---- C34
\* C34: once every get_nodes_for_date call has been answered, the tree on
\* display is the tree of the selected date, whatever the order of the
\* answers: a late answer for an earlier selection never replaces the tree of
\* the current one.
C34_LastSelectionWins ==
  GetsInFlight = {} => TreeInScope(DateStr(selectedDate))

\* ---- C35
\* C35: when a promotion create call succeeds, the reply changes nothing in
\* the tree but the virtual flag and the date context of the promoted node:
\* the array on display, with what was added, removed or reordered while the
\* call was in flight, and every other field of every node stay as they were
\* just before the reply.
C35_PromotionOnlyClearsFlag ==
  [][\A c \in BagToSet(calls) :
       PromoteReply(c, "same")
       => /\ nodes' = nodes
          /\ \A r \in DOMAIN obj :
               \/ obj'[r] = obj[r]
               \/ /\ obj[r].id = c.id
                  /\ obj'[r] = [obj[r] EXCEPT !.isVirtual = FALSE, !.dateContext = NoDate]]_vars

\* ---- C36
\* every timer has fired, every call has been answered, and none was rejected
Quiescent == timers = <<>> /\ calls = EmptyBag /\ ~failed

\* the node ids a promotion create call was issued for
PromotedIds == {e.id : e \in {x \in BagToSet(log) : IsPromote(x)}}

\* C36: content typed into a virtual node while its promotion is in flight is
\* not lost: once every timer has fired and every call has completed
\* successfully, the content of the last create or update call issued for a
\* promoted node on display is the local content of the node (up to the
\* trim() of the create call).
C36_TypedDuringPromotionKept ==
  Quiescent =>
    \A n \in InTree :
       obj[n].id \in PromotedIds => Trim(lastSent[obj[n].id]) = Trim(obj[n].content)

\* ---- C37
\* a promotion create call for id is in flight, or one has succeeded: the
\* node with that id is on the backend
PromotionUnderWay(id) ==
  \/ \E c \in BagToSet(calls) : IsPromote(c) /\ c.id = id
  \/ id \in PromotedIds /\ Persisted(id)

\* C37: once a promotion create call for a virtual node id is in flight or
\* has succeeded, no second create call with that id is issued, whatever
\* keystrokes arrive and whenever their debounce expires.
C37_NoSecondCreate ==
  [][\A e \in BagToSet(log') :
       (IsPromote(e) /\ PromotionUnderWay(e.id)) => CopiesIn(e, log') = CopiesIn(e, log)]_vars

\* ---- C38
\* the content the backend holds for the node id
StoredContent(id) ==
  LET d == CHOOSE d \in DateStrs : \E i \in DOMAIN backend[d] : backend[d][i].id = id
      i == CHOOSE i \in DOMAIN backend[d] : backend[d][i].id = id
  IN backend[d][i].content

\* only update calls were issued for id, and the last of them carried content
LastSavedIs(id, content) ==
  /\ id \in DOMAIN lastSent
  /\ lastSent[id] = content
  /\ \A e \in BagToSet(log) : e.id = id => e.cmd = "update_node_content"

\* C38: the content saves of a real node converge: an older update call that
\* is answered after a newer one never leaves the older content behind, so
\* once every timer has fired and every call has completed successfully the
\* backend holds the local content of every node whose last save carried it.
C38_SavesConverge ==
  Quiescent =>
    \A n \in InTree :
       (Persisted(obj[n].id) /\ LastSavedIs(obj[n].id, obj[n].content))
       => StoredContent(obj[n].id) = obj[n].content

\* ---- C39
\* C39: a node the user creates is persisted under the date of the tree it is
\* inserted into: the create call carries the date of the tree on display,
\* also while the tree of a newly selected date is still loading.
C39_CreatedUnderDisplayedDate ==
  [][\A content \in {<<>>, <<"x", " ">>} :
       onNodeCreateWithId(content)
       => \E e \in BagToSet(log') :
             /\ e.cmd = "create_node_for_date_with_id"
             /\ e.id = ClientId(nextClient + 1)
             /\ \A n \in InTree : scope[n] = e.date]_vars

\* ---- C40
\* C40: the loading flag is true exactly while a get_nodes_for_date call is
\* in flight: with overlapping loads it stays true until the last of them
\* has completed, and it is false when none is in flight.
C40_LoadingWhileInFlight ==
  loading = (GetsInFlight # {})
====
